---------------------------- MODULE Spec2Model ----------------------------
(***************************************************************************)
(* Model of research/deeplab/utils/demon/utils/vis.py: the DeMoN point     *)
(* cloud viewer.  The pure numeric functions are operators; the two entry  *)
(* points visualize_depths and visualize_prediction are sequences of       *)
(* steps over the renderer's state.                                        *)
(*                                                                         *)
(* Numbers.  numpy works on IEEE doubles; here a number is a decimal       *)
(* floating-point value <<n, k>> standing for n * 10^(-k), kept to Digits  *)
(* significant digits by round-to-nearest.  Values that need no more       *)
(* digits than that are computed exactly.  What the code decides on a      *)
(* number, the test angle > 1e-6 and the byte of a colour, is decided on   *)
(* all of its digits, not on the rounded value.                            *)
(***************************************************************************)
EXTENDS Integers, Sequences, FiniteSets, TLC

\* Significant decimal digits kept by every arithmetic operation.
Digits == 4

\* Number of terms of the power series used for np.cos and np.sin.
SeriesTerms == 7

\* Largest number of entries of the depths mapping of visualize_depths.
MaxMaps == 2

\* Largest number of rows of a point array given to transform_pointcloud_points.
MaxPoints == 2

-----------------------------------------------------------------------------
(* Decimal floating point *)

Abs(x) == IF x < 0 THEN -x ELSE x

Sgn(x) == IF x < 0 THEN -1 ELSE IF x = 0 THEN 0 ELSE 1

RECURSIVE Pow10(_)
Pow10(e) == IF e <= 0 THEN 1 ELSE 10 * Pow10(e - 1)

RECURSIVE NumDigits(_)
NumDigits(m) == IF m < 10 THEN 1 ELSE 1 + NumDigits(m \div 10)

\* The value produced by an invalid operation (division by zero).
NaN == <<0, 1>>

IsNaN(a) == a = NaN

Zero == <<0, 0>>

One == <<1, 0>>

\* Canonical form: no trailing zero digits after the decimal point.
RECURSIVE Strip(_, _)
Strip(n, k) ==
    IF n = 0 THEN Zero
    ELSE IF k > 0 /\ n % 10 = 0 THEN Strip(n \div 10, k - 1)
    ELSE <<n, k>>

\* Magnitude m * 10^(-k), m >= 0, rounded half-up to Digits digits.
RoundTo(m, k) ==
    LET e == NumDigits(m) - Digits
    IN  IF e <= 0 THEN <<m, k>>
        ELSE LET q == (m + 5 * Pow10(e - 1)) \div Pow10(e)
             IN  IF q >= Pow10(Digits) THEN <<q \div 10, k - e - 1>>
                 ELSE <<q, k - e>>

\* The number s * m * 10^(-k) for a sign s and a magnitude m >= 0.
Mk(s, m, k) == LET r == RoundTo(m, k) IN Strip(s * r[1], r[2])

\* The number n * 10^(-k) of a literal.
D(n, k) == Mk(Sgn(n), Abs(n), k)

Int2D(n) == D(n, 0)

Neg(a) == IF IsNaN(a) THEN NaN ELSE <<-a[1], a[2]>>

Mul(a, b) ==
    IF IsNaN(a) \/ IsNaN(b) THEN NaN
    ELSE LET x == Abs(a[1])
             y == Abs(b[1])
             s == Sgn(a[1]) * Sgn(b[1])
         IN  IF (x <= 40000 /\ y <= 40000) \/ x <= 20000 \/ y <= 20000
             THEN Mk(s, x * y, a[2] + b[2])
             ELSE Mk(s, (x \div 100) * y + ((x % 100) * y) \div 100,
                     a[2] + b[2] - 2)

\* a + b for a[2] >= b[2], both nonzero.
AddAligned(a, b) ==
    LET shift == a[2] - b[2]
    IN  IF shift <= 4
        THEN LET n == a[1] + b[1] * Pow10(shift)
             IN  Mk(Sgn(n), Abs(n), a[2])
        ELSE LET kk == b[2] + 4
                 drop == a[2] - kk
                 n1 == IF drop >= 9 THEN 0
                       ELSE Sgn(a[1]) * (Abs(a[1]) \div Pow10(drop))
                 n == n1 + b[1] * Pow10(4)
             IN  Mk(Sgn(n), Abs(n), kk)

Add(a, b) ==
    IF IsNaN(a) \/ IsNaN(b) THEN NaN
    ELSE IF a[1] = 0 THEN b
    ELSE IF b[1] = 0 THEN a
    ELSE IF a[2] >= b[2] THEN AddAligned(a, b)
    ELSE AddAligned(b, a)

Sub(a, b) == Add(a, Neg(b))

Div(a, b) ==
    IF IsNaN(a) \/ IsNaN(b) \/ b[1] = 0 THEN NaN
    ELSE IF a[1] = 0 THEN Zero
    ELSE LET x == Abs(a[1])
             j == 9 - NumDigits(x)
             s == Sgn(a[1]) * Sgn(b[1])
         IN  Mk(s, (x * Pow10(j)) \div Abs(b[1]), a[2] + j - b[2])

\* a > b, as the comparison of two floats (False when either is NaN).
Gt(a, b) == ~IsNaN(a) /\ ~IsNaN(b) /\ Sub(a, b)[1] > 0

RECURSIVE ISqrtIn(_, _, _)
ISqrtIn(x, lo, hi) ==
    IF lo >= hi THEN lo
    ELSE LET mid == (lo + hi + 1) \div 2
         IN  IF mid * mid <= x THEN ISqrtIn(x, mid, hi)
             ELSE ISqrtIn(x, lo, mid - 1)

\* Largest r with r * r <= x, for 0 <= x < 10^9.
ISqrt(x) == ISqrtIn(x, 0, 31622)

\* np.sqrt of a number >= 0.
Sqrt(a) ==
    IF IsNaN(a) \/ a[1] < 0 THEN NaN
    ELSE IF a[1] = 0 THEN Zero
    ELSE LET j0 == 8 - NumDigits(a[1])
             j == IF (a[2] + j0) % 2 = 0 THEN j0 ELSE j0 + 1
         IN  Mk(1, ISqrt(a[1] * Pow10(j)), (a[2] + j) \div 2)

\* Sum of the terms i..SeriesTerms of a power series in x whose term i is
\* `term` and whose term i+1 is -term * x^2 / ((d+1)(d+2)), d the degree
\* of term i.
RECURSIVE Series(_, _, _, _)
Series(term, x2, d, i) ==
    IF i >= SeriesTerms \/ term[1] = 0 THEN term
    ELSE Add(term,
             Series(Neg(Div(Mul(term, x2), Int2D((d + 1) * (d + 2)))),
                    x2, d + 2, i + 1))

\* 2*pi, pi and pi/2 in units of 1e-7.
TwoPi7 == 62831853

Pi7 == 31415927

HalfPi7 == 15707963

\* 10^e modulo 2*pi for e = 0..20, in units of 1e-7.
TenModTwoPi7 ==
    << 10000000, 37168147, 57522204, 9735362, 34521763, 31058362, 59256211,
       27075436, 19426951, 5773954, 57739542, 11908746, 56255605, 59901230,
       33525625, 21096981, 22474252, 36246966, 48310392, 43280945, 55818331 >>

\* The decimal digit of weight 10^e, modulo 2*pi, in units of 1e-7.
Weight7(e) ==
    IF e >= 0 THEN TenModTwoPi7[e + 1]
    ELSE IF e >= -7 THEN Pow10(7 + e)
    ELSE 0

\* m * 10^e modulo 2*pi in units of 1e-7, m >= 0, digit by digit.
RECURSIVE ArgMod(_, _, _)
ArgMod(m, e, acc) ==
    IF m = 0 THEN acc
    ELSE ArgMod(m \div 10, e + 1, (acc + (m % 10) * Weight7(e)) % TwoPi7)

\* The argument a in [0, 2*pi) brought to [-pi/2, pi/2]: pi - a in the
\* second and third quadrant, where the sine is the same and the cosine has
\* the other sign, and a - 2*pi in the fourth.
Folded(a) ==
    IF a <= HalfPi7 THEN D(a, 7)
    ELSE IF a < Pi7 + HalfPi7 THEN D(Pi7 - a, 7)
    ELSE D(a - TwoPi7, 7)

\* -1 where the folding changes the sign of the cosine.
FoldSign(a) == IF a > HalfPi7 /\ a < Pi7 + HalfPi7 THEN -1 ELSE 1

\* The argument is reduced by the period when it is above 1.5: a number
\* x[1] * 10^(-x[2]) with x[2] < 0 is 10 or more unless it is zero.
Reduces(x) ==
    /\ x[2] <= 7
    /\ IF x[2] < 0 THEN x[1] # 0
       ELSE IF x[2] = 0 THEN Abs(x[1]) >= 2
       ELSE Abs(x[1]) > 15 * Pow10(x[2] - 1)

CosReduced(a) ==
    IF FoldSign(a) = 1 THEN Series(One, Mul(Folded(a), Folded(a)), 0, 1)
    ELSE Neg(Series(One, Mul(Folded(a), Folded(a)), 0, 1))

SinReduced(a) == Series(Folded(a), Mul(Folded(a), Folded(a)), 1, 1)

\* np.cos and np.sin: the power series about 0 of the argument reduced by
\* the period 2*pi.
Cos(x) ==
    IF IsNaN(x) THEN NaN
    ELSE IF Reduces(x) THEN CosReduced(ArgMod(Abs(x[1]), -x[2], 0))
    ELSE Series(One, Mul(x, x), 0, 1)

Sin(x) ==
    IF IsNaN(x) THEN NaN
    ELSE IF Reduces(x)
         THEN IF x[1] < 0 THEN Neg(SinReduced(ArgMod(Abs(x[1]), -x[2], 0)))
              ELSE SinReduced(ArgMod(Abs(x[1]), -x[2], 0))
    ELSE Series(x, Mul(x, x), 1, 1)

\* np.uint8 of a float: the fraction is dropped, the integer kept modulo 256.
Uint8(a) ==
    LET t == IF a[2] >= 0
             THEN Sgn(a[1]) * (Abs(a[1]) \div Pow10(a[2]))
             ELSE a[1] * Pow10(-a[2])
    IN  t % 256

-----------------------------------------------------------------------------
(* Arrays.  A vector is a sequence of numbers, a matrix a sequence of rows, *)
(* an image of shape (3,h,w) a sequence of three matrices.                  *)

\* Python's None, encoded as a value that no array takes.
None == << <<>> >>

Vec3(x, y, z) == <<Int2D(x), Int2D(y), Int2D(z)>>

\* np.eye(n)
Eye(n) == [r \in 1..n |-> [c \in 1..n |-> IF r = c THEN One ELSE Zero]]

\* np.zeros((n,))
Zeros(n) == [c \in 1..n |-> Zero]

\* The sum x[1]*y[1] + ... + x[n]*y[n], accumulated from the left.
RECURSIVE DotN(_, _, _)
DotN(x, y, n) ==
    IF n = 0 THEN Zero
    ELSE IF n = 1 THEN Mul(x[1], y[1])
    ELSE Add(DotN(x, y, n - 1), Mul(x[n], y[n]))

\* a.dot(b) of two vectors
Dot(x, y) == DotN(x, y, Len(x))

Column(M, c) == [r \in 1..Len(M) |-> M[r][c]]

\* v.dot(M) of a row vector and a matrix
VecMat(v, M) == [c \in 1..Len(M[1]) |-> Dot(v, Column(M, c))]

\* A.dot(B) of two matrices
MatMul(A, B) == [r \in 1..Len(A) |-> VecMat(A[r], B)]

-----------------------------------------------------------------------------
(* angleaxis_to_rotation_matrix *)

\* The literal 1e-6 of the test `angle > 1e-6`.
AngleEps == D(1, 6)

\* angle = np.sqrt(aa.dot(aa))
Angle(aa) == Sqrt(Dot(aa, aa))

\* The test `angle > 1e-6` is decided as the code decides it, in binary64:
\* the components of aa, their squares and the sum are each rounded to the
\* nearest double, ties to even, and so is the root.  A natural number of any length is a
\* sequence of limbs below 2^LimbBits, the lowest first; a double above 0 is a pair
\* <<m, e>> standing for m * 2^e with m a natural number of MantissaBits bits,
\* and 0 is << <<0>>, 0 >>.  An operator on these numbers takes the
\* value of an argument once, as the one element of a set, and works on that.

\* The bits of a limb: a limb is below 2^LimbBits.
LimbBits == 12

\* The bits of the significand of a double.
MantissaBits == 53

RECURSIVE Pow2(_)
Pow2(b) == IF b <= 0 THEN 1 ELSE 2 * Pow2(b - 1)

RECURSIVE Limbs(_)
Limbs(n) ==
    IF n < Pow2(LimbBits) THEN <<n>>
    ELSE <<n % Pow2(LimbBits)>> \o Limbs(n \div Pow2(LimbBits))

LimbAt(x, j) == IF j >= 1 /\ j <= Len(x) THEN x[j] ELSE 0

LongerLen(x, y) == IF Len(x) > Len(y) THEN Len(x) ELSE Len(y)

\* x without the limbs 0 above its highest limb that is not 0.
Trimmed(x) ==
    CHOOSE r \in {SubSeq(xv, 1, CHOOSE t \in 1..Len(xv) :
                                    /\ t > 1 => xv[t] # 0
                                    /\ \A h \in (t + 1)..Len(xv) : xv[h] = 0) :
                     xv \in {x}} : TRUE

\* The number whose limb j is col[j], each col[j] giving what it has above a
\* limb to the next.
Spread(col) ==
    CHOOSE r \in {<<>> \o [j \in 1..(Len(cv) + 1) |->
                             (LimbAt(cv, j) % Pow2(LimbBits))
                             + (LimbAt(cv, j - 1) \div Pow2(LimbBits))] :
                     cv \in {col}} : TRUE

\* The limbs of the number whose limb j, before the carries, is col[j] below
\* 2^31.  Spread three times it has limbs e[j] of at most 2^LimbBits + 1, and
\* a carry of 1 comes into limb j from the nearest limb i below it that has
\* one to give, when the limbs between are full.
Carried(col) ==
    CHOOSE r \in {Trimmed([j \in 1..Len(e) |->
                     (e[j] + IF \E i \in 1..(j - 1) :
                                   /\ e[i] >= Pow2(LimbBits)
                                   /\ \A h \in (i + 1)..(j - 1) :
                                          e[h] = Pow2(LimbBits) - 1
                             THEN 1 ELSE 0) % Pow2(LimbBits)]) :
                     e \in {Spread(Spread(Spread(col)))}} : TRUE

BAdd(x, y) ==
    CHOOSE r \in {Carried([j \in 1..LongerLen(xv, yv) |->
                              LimbAt(xv, j) + LimbAt(yv, j)]) :
                     xv \in {x}, yv \in {y}} : TRUE

RECURSIVE ColSum(_, _, _, _)
ColSum(x, y, c, j) ==
    IF j > Len(x) THEN 0
    ELSE x[j] * LimbAt(y, c - j + 1) + ColSum(x, y, c, j + 1)

BMul(x, y) ==
    CHOOSE r \in {Carried([c \in 1..(Len(xv) + Len(yv)) |-> ColSum(xv, yv, c, 1)]) :
                     xv \in {x}, yv \in {y}} : TRUE

\* x > y: x has the larger limb where they first differ from the top.
BGt(x, y) ==
    \E xv \in {x}, yv \in {y} :
        \E j \in 1..LongerLen(xv, yv) :
            /\ LimbAt(xv, j) > LimbAt(yv, j)
            /\ \A h \in (j + 1)..LongerLen(xv, yv) : LimbAt(xv, h) = LimbAt(yv, h)

\* The number of bits of x, 0 for 0: t is the highest limb that is not 0, and
\* b the number of its bits.
BitLen(x) ==
    CHOOSE n \in {IF t = 0 THEN 0
                  ELSE LimbBits * (t - 1)
                       + (CHOOSE b \in 1..LimbBits :
                              Pow2(b) > xv[t] /\ Pow2(b - 1) <= xv[t]) :
                     xv \in {x},
                     t \in {CHOOSE t \in 0..Len(x) :
                                /\ t # 0 => x[t] # 0
                                /\ \A h \in (t + 1)..Len(x) : x[h] = 0}} : TRUE

\* x * 2^s
BShl(x, s) ==
    CHOOSE r \in {Carried([j \in 1..(Len(xv) + (sv \div LimbBits)) |->
                              LimbAt(xv, j - (sv \div LimbBits))
                                  * Pow2(sv % LimbBits)]) :
                     xv \in {x}, sv \in {s}} : TRUE

\* x / 2^s without its fraction
BShr(x, s) ==
    CHOOSE r \in {IF Len(xv) <= sv \div LimbBits THEN <<0>>
                  ELSE Trimmed([j \in 1..(Len(xv) - (sv \div LimbBits)) |->
                           LimbAt(xv, j + (sv \div LimbBits)) \div Pow2(sv % LimbBits)
                           + (LimbAt(xv, j + (sv \div LimbBits) + 1)
                                  % Pow2(sv % LimbBits))
                             * Pow2(LimbBits - (sv % LimbBits))]) :
                     xv \in {x}, sv \in {s}} : TRUE

\* Bit p of x, the lowest being bit 0.
BBit(x, p) == (LimbAt(x, (p \div LimbBits) + 1) \div Pow2(p % LimbBits)) % 2

\* The limbs 1..j of x / d, rem being the remainder of the limbs above j.
RECURSIVE DivFrom(_, _, _, _)
DivFrom(x, d, j, rem) ==
    IF j = 0 THEN <<>>
    ELSE CHOOSE r \in {DivFrom(x, d, j - 1, t % d) \o <<t \div d>> :
                          t \in {rem * Pow2(LimbBits) + x[j]}} : TRUE

\* x / d without its fraction, for d < 10^5.
BDiv(x, d) == CHOOSE r \in {Trimmed(DivFrom(xv, d, Len(xv), 0)) : xv \in {x}} : TRUE

\* The double nearest to x * 2^e, x > 0 with s > 0 bits more than a mantissa.
\* The mantissa q, x without its s lowest bits, is rounded up to m when the
\* bits dropped are more than half of its last place, or are half and q is
\* odd; `inexact` says that x itself stands for a number a little above x.
\* m has the bits of a mantissa or one more.
RoundedAt(x, e, inexact, s) ==
    CHOOSE r \in {IF /\ BBit(x, s - 1) = 1
                     /\ \/ inexact
                        \/ BGt(x, BShl(BShr(x, s - 1), s - 1))
                        \/ BBit(x, s) = 1
                  THEN IF BitLen(m) > MantissaBits
                       THEN <<BShr(m, 1), e + s + 1>>
                       ELSE <<m, e + s>>
                  ELSE <<q, e + s>> :
                     q \in {BShr(x, s)},
                     m \in {BAdd(BShr(x, s), <<1>>)}} : TRUE

\* The double nearest to x * 2^e: 0, or x of n bits shifted up to a mantissa,
\* or rounded to one.
Rounded(x, e, inexact) ==
    CHOOSE r \in {IF n = 0 THEN << <<0>>, 0 >>
                  ELSE IF n <= MantissaBits
                       THEN <<BShl(xv, MantissaBits - n), ev - (MantissaBits - n)>>
                       ELSE RoundedAt(xv, ev, iv, n - MantissaBits) :
                     xv \in {x}, ev \in {e}, iv \in {inexact}, n \in {BitLen(x)}} : TRUE

\* x times 10^k
RECURSIVE BTimesPow10(_, _)
BTimesPow10(x, k) ==
    IF k <= 0 THEN x
    ELSE IF k >= 4 THEN BTimesPow10(BMul(x, Limbs(10000)), k - 4)
    ELSE BTimesPow10(BMul(x, <<10>>), k - 1)

\* x / 10^k without its fraction
RECURSIVE BOverPow10(_, _)
BOverPow10(x, k) ==
    IF k <= 0 THEN x
    ELSE IF k >= 4 THEN BOverPow10(BDiv(x, 10000), k - 4)
    ELSE BOverPow10(BDiv(x, 10), k - 1)

\* The double of the decimal n * 10^(-k), n >= 0, k > 0: n is shifted up by
\* s bits and divided by 10^k, the quotient q having more bits than a mantissa.
FromFraction(n, k, s) ==
    CHOOSE r \in {Rounded(q, -s, BGt(t, BTimesPow10(q, k))) :
                     t \in {BShl(Limbs(n), s)},
                     q \in {BOverPow10(BShl(Limbs(n), s), k)}} : TRUE

\* The double of the magnitude of the number a.
FromDec(a) ==
    CHOOSE r \in {IF av[2] <= 0
                  THEN Rounded(BTimesPow10(Limbs(Abs(av[1])), -av[2]), 0, FALSE)
                  ELSE FromFraction(Abs(av[1]), av[2],
                                    4 * av[2] + MantissaBits + LimbBits) :
                     av \in {a}} : TRUE

\* a * b of two doubles
FMul(a, b) ==
    CHOOSE r \in {Rounded(BMul(av[1], bv[1]), av[2] + bv[2], FALSE) :
                     av \in {a}, bv \in {b}} : TRUE

\* a + b for a[2] >= b[2]: b below the last place of a twice over only says
\* that the sum is a little above a.
FAddAligned(a, b) ==
    IF a[2] - b[2] > 2 * MantissaBits
    THEN Rounded(BShl(a[1], 2), a[2] - 2, TRUE)
    ELSE Rounded(BAdd(BShl(a[1], a[2] - b[2]), b[1]), b[2], FALSE)

\* a + b of two doubles >= 0
FAdd(a, b) ==
    CHOOSE r \in {IF BitLen(av[1]) = 0 THEN bv
                  ELSE IF BitLen(bv[1]) = 0 THEN av
                  ELSE IF av[2] >= bv[2] THEN FAddAligned(av, bv)
                  ELSE FAddAligned(bv, av) : av \in {a}, bv \in {b}} : TRUE

\* aa.dot(aa) in doubles: the squares added in the order of the index.
FDot(aa) ==
    CHOOSE r \in {FAdd(FAdd(FMul(x1, x1), FMul(x2, x2)), FMul(x3, x3)) :
                     x1 \in {FromDec(aa[1])}, x2 \in {FromDec(aa[2])},
                     x3 \in {FromDec(aa[3])}} : TRUE

\* The root of the double a >= 0 is above m * 2^e, m > 0: a is above
\* m * m * 2^(2 * e).  The two are told apart by their highest bits, or else,
\* being less than a mantissa apart, by all their bits.
RootAbove(a, m, e) ==
    \E av \in {a}, sq \in {BMul(m, m)} :
        IF BitLen(av[1]) = 0 THEN FALSE
        ELSE IF BitLen(av[1]) + av[2] # BitLen(sq) + 2 * e
             THEN BitLen(av[1]) + av[2] > BitLen(sq) + 2 * e
        ELSE IF av[2] >= 2 * e THEN BGt(BShl(av[1], av[2] - 2 * e), sq)
        ELSE BGt(av[1], BShl(sq, 2 * e - av[2]))

\* np.sqrt(a) > d for doubles a >= 0 and d > 0.  np.sqrt gives the double
\* nearest to the root, which is above d when the root is above the middle
\* between d and the next double, (2 * m + 1) * 2^(e - 1) for d = <<m, e>>;
\* the root of a double is never that middle.
FSqrtGt(a, d) ==
    \E dv \in {d} : RootAbove(a, BAdd(BShl(dv[1], 1), <<1>>), dv[2] - 1)

\* x - 1 for x > 0: the lowest limb t that is not 0 is lowered, and the limbs
\* below it are filled.
BPred(x) ==
    CHOOSE r \in {Trimmed([j \in 1..Len(x) |->
                      IF j < t THEN Pow2(LimbBits) - 1
                      ELSE IF j = t THEN x[j] - 1 ELSE x[j]]) :
                     t \in {CHOOSE t \in 1..Len(x) :
                                x[t] # 0 /\ \A h \in 1..(t - 1) : x[h] = 0}} : TRUE

\* np.sqrt(a) >= d for doubles a >= 0 and d > 0, d not a power of 2: the root
\* is above the middle between d and the double before it.
FSqrtGe(a, d) ==
    \E dv \in {d} : RootAbove(a, BPred(BShl(dv[1], 1)), dv[2] - 1)

\* RodriguesBranch with the test `angle >= 1e-6`.
RodriguesBranchAtEps(aa) ==
    /\ \A j \in 1..3 : ~IsNaN(aa[j])
    /\ FSqrtGe(FDot(aa), FromDec(AngleEps))

\* The branch `if angle > 1e-6` is taken, angle being np.sqrt(aa.dot(aa)).
RodriguesBranch(aa) ==
    /\ \A j \in 1..3 : ~IsNaN(aa[j])
    /\ FSqrtGt(FDot(aa), FromDec(AngleEps))

\* The nine entries of R, from the unit axis u, c = cos(angle), s = sin(angle)
\* and omc = 1 - c.
RodriguesEntries(u, c, s, omc) ==
    LET uu(i, j) == Mul(Mul(u[i], u[j]), omc)
        us(i) == Mul(u[i], s)
    IN  << <<Add(c, uu(1, 1)), Sub(uu(1, 2), us(3)), Add(uu(1, 3), us(2))>>,
           <<Add(uu(2, 1), us(3)), Add(c, uu(2, 2)), Sub(uu(2, 3), us(1))>>,
           <<Sub(uu(3, 1), us(2)), Add(uu(3, 2), us(1)), Add(c, uu(3, 3))>> >>

RodriguesMatrix(u, c, s) == RodriguesEntries(u, c, s, Sub(One, c))

\* c, s and u of the `if` branch.
RodriguesAt(aa, angle) ==
    RodriguesMatrix([i \in 1..3 |-> Div(aa[i], angle)], Cos(angle), Sin(angle))

\* The matrix built in the `if` branch.
Rodrigues(aa) == RodriguesAt(aa, Angle(aa))

angleaxis_to_rotation_matrix(aa) ==
    IF RodriguesBranch(aa) THEN Rodrigues(aa) ELSE Eye(3)

-----------------------------------------------------------------------------
(* create_camera_actor *)

\* The 11 vertices of the camera mesh, in tenths.
cam_points ==
    << <<D(0, 1), D(0, 1), D(0, 1)>>,
       <<D(-10, 1), D(-10, 1), D(15, 1)>>,
       <<D(10, 1), D(-10, 1), D(15, 1)>>,
       <<D(10, 1), D(10, 1), D(15, 1)>>,
       <<D(-10, 1), D(10, 1), D(15, 1)>>,
       <<D(-5, 1), D(10, 1), D(15, 1)>>,
       <<D(5, 1), D(10, 1), D(15, 1)>>,
       <<D(0, 1), D(12, 1), D(15, 1)>>,
       <<D(10, 1), D(-5, 1), D(15, 1)>>,
       <<D(10, 1), D(5, 1), D(15, 1)>>,
       <<D(12, 1), D(0, 1), D(15, 1)>> >>

\* The factor 0.25 of the mesh.
CamScale == D(25, 2)

\* CameraWorldPoints with R applied from the left: R.dot(0.25*p - t).
CameraWorldPointsLeft(R, t) ==
    [i \in 1..Len(cam_points) |->
        [r \in 1..3 |->
            Dot(R[r], [k \in 1..3 |-> Sub(Mul(CamScale, cam_points[i][k]), t[k])])]]

\* cam_points = (0.25*cam_points - t).dot(R)
CameraWorldPoints(R, t) ==
    [i \in 1..Len(cam_points) |->
        VecMat([k \in 1..3 |-> Sub(Mul(CamScale, cam_points[i][k]), t[k])], R)]

\* The line cells: the frustum outline, its two side triangles, the x-axis
\* indicator (vertex numbers as in the source, from 0).
CameraLines == << <<1, 2, 3, 4, 1>>, <<1, 0, 2>>, <<3, 0, 4>>, <<8, 10, 9>> >>

\* The polygon cell: the up vector flag.
CameraPolys == << <<5, 6, 7>> >>

create_camera_actor(R, t) ==
    [kind |-> "camera",
     points |-> CameraWorldPoints(R, t),
     lines |-> CameraLines,
     polys |-> CameraPolys,
     lighting |-> FALSE,
     lineWidth |-> 2]

-----------------------------------------------------------------------------
(* create_pointcloud_actor *)

\* The exception raised by create_pointcloud_actor, or "none": points.shape
\* of None is an AttributeError, a colour row that does not exist an
\* IndexError.
PointcloudActorError(points, colors) ==
    IF points = None THEN "AttributeError"
    ELSE IF colors # None /\ Len(colors) < Len(points) THEN "IndexError"
    ELSE "none"

create_pointcloud_actor(points, colors) ==
    [kind |-> "pointcloud",
     points |-> points,
     colors |-> IF colors = None THEN None
                ELSE [i \in 1..Len(points) |-> colors[i]],
     verts |-> [i \in 1..Len(points) |-> i - 1],
     pointSize |-> 3]

-----------------------------------------------------------------------------
(* transform_pointcloud_points *)

\* Homogeneous with the coordinate 1 put first.
HomogeneousFirst(points) ==
    [i \in 1..Len(points) |-> <<One, points[i][1], points[i][2], points[i][3]>>]

\* tmp: each point with a fourth coordinate 1.
Homogeneous(points) ==
    [i \in 1..Len(points) |-> <<points[i][1], points[i][2], points[i][3], One>>]

\* T.dot(tmp.transpose())[0:3].transpose()
transform_pointcloud_points(points, T) ==
    LET tmp == Homogeneous(points)
    IN  [i \in 1..Len(points) |-> [r \in 1..3 |-> Dot(T[r], tmp[i])]]

-----------------------------------------------------------------------------
(* compute_point_cloud_from_depthmap: the wrapper of the compiled kernel    *)
(* vis_cython, which is specified by its contract only.                     *)

\* The pixels (row, col) of an h x w grid in row-major order, from 0.
Pixels(h, w) == [p \in 1..(h * w) |-> <<(p - 1) \div w, (p - 1) % w>>]

\* A depth value yields a point iff it is finite and positive.
ValidDepth(d) == ~IsNaN(d) /\ d[1] > 0

\* The world point of pixel px with depth d: pinhole back-projection, then
\* the rigid transform in the row-vector convention of the camera mesh.
Unproject(px, d, K, R, t) ==
    LET x == Div(Mul(Sub(Int2D(px[2]), K[1][3]), d), K[1][1])
        y == Div(Mul(Sub(Int2D(px[1]), K[2][3]), d), K[2][2])
        X == <<x, y, d>>
    IN  VecMat([k \in 1..3 |-> Sub(X[k], t[k])], R)

\* One row per valid pixel: the values of the three channels of an image.
PixelRows(image, valid) ==
    [p \in 1..Len(valid) |->
        [ch \in 1..3 |-> image[ch][valid[p][1] + 1][valid[p][2] + 1]]]

\* One point per valid pixel.
PixelPoints(depth, valid, K, R, t) ==
    [p \in 1..Len(valid) |->
        Unproject(valid[p], depth[valid[p][1] + 1][valid[p][2] + 1], K, R, t)]

\* The dictionary of the arrays that exist.
CloudDict(points, normals, colors) ==
    IF colors = None /\ normals = None THEN [points |-> points]
    ELSE IF normals = None THEN [points |-> points, colors |-> colors]
    ELSE IF colors = None THEN [points |-> points, normals |-> normals]
    ELSE [points |-> points, normals |-> normals, colors |-> colors]

KernelOn(depth, valid, K, R, t, normals, colors) ==
    CloudDict(PixelPoints(depth, valid, K, R, t),
              IF normals = None THEN None ELSE PixelRows(normals, valid),
              IF colors = None THEN None ELSE PixelRows(colors, valid))

\* The dictionary returned by the kernel: 'points', and 'normals' and
\* 'colors' when they are given, one row per valid pixel in row-major order.
Kernel(depth, K, R, t, normals, colors) ==
    KernelOn(depth,
             SelectSeq(Pixels(Len(depth), Len(depth[1])),
                       LAMBDA px : ValidDepth(depth[px[1] + 1][px[2] + 1])),
             K, R, t, normals, colors)

compute_point_cloud_from_depthmap(depth, K, R, t, normals, colors) ==
    Kernel(depth, K, R, t, normals, colors)

-----------------------------------------------------------------------------
(* Helpers of the two entry points *)

\* The sun3d intrinsics used when none are given.
DefaultIntrinsics == <<D(89115971, 8), D(118821287, 8), D(5, 1), D(5, 1)>>

\* `intrinsics` after the test `if intrinsics is None`.
IntrinsicsOrDefault(intrinsics) ==
    IF intrinsics = None THEN DefaultIntrinsics ELSE intrinsics

\* K = np.eye(3) with the four denormalised entries set.
IntrinsicMatrix(intrinsics, h, w) ==
    << <<Mul(intrinsics[1], Int2D(w)), Zero, Mul(intrinsics[3], Int2D(w))>>,
       <<Zero, Mul(intrinsics[2], Int2D(h)), Mul(intrinsics[4], Int2D(h))>>,
       <<Zero, Zero, One>> >>

\* np.ones([3, h, w]) with channel ch multiplied by v[ch].
FilledImage(h, w, v) ==
    [ch \in 1..3 |-> [r \in 1..h |-> [c \in 1..w |-> Mul(One, v[ch])]]]

\* np.uint8 of an image.
ImageUint8(image) ==
    [ch \in 1..Len(image) |->
        [r \in 1..Len(image[ch]) |->
            [c \in 1..Len(image[ch][r]) |-> Uint8(image[ch][r][c])]]]

\* The exception that ends the colour resolution of one entry, or "none":
\* vis['color'][i] on a 1-dimensional colour of fewer than 3 elements and
\* vis['color'].shape[0] on a 0-dimensional one raise IndexError, and the
\* assertion fails on any other colour whose first dimension is not 3.
ColorError(vis) ==
    IF "color" \notin DOMAIN vis THEN "none"
    ELSE IF Len(vis.color.shape) = 1
         THEN IF vis.color.shape[1] < 3 THEN "IndexError" ELSE "none"
    ELSE IF Len(vis.color.shape) = 0 THEN "IndexError"
    ELSE IF vis.color.shape[1] # 3 THEN "AssertionError"
    ELSE "none"

\* ColorImage with every channel filled with the first element of the colour.
ColorImageFirstChannel(vis, h, w) ==
    IF "color" \in DOMAIN vis
    THEN IF Len(vis.color.shape) = 1
         THEN FilledImage(h, w, <<vis.color.data[1], vis.color.data[1],
                                  vis.color.data[1]>>)
         ELSE vis.color.data
    ELSE FilledImage(h, w, <<Int2D(255), Int2D(255), Int2D(255)>>)

\* The colour image of one entry of the depths mapping, before np.uint8.
ColorImage(vis, h, w) ==
    IF "color" \in DOMAIN vis
    THEN IF Len(vis.color.shape) = 1
         THEN FilledImage(h, w, vis.color.data)
         ELSE vis.color.data
    ELSE FilledImage(h, w, <<Int2D(255), Int2D(255), Int2D(255)>>)

\* img = np.uint8(img)
ResolveColor(vis, h, w) == ImageUint8(ColorImage(vis, h, w))

\* EmptyCloud with empty arrays in the place of None.
EmptyCloudArrays == [points |-> <<>>, colors |-> <<>>]

\* pointcloud = {'points': None, 'colors': None}
EmptyCloud == [points |-> None, colors |-> None]

\* np.vstack([a, b])
VStack(a, b) == a \o b

\* MergeCloud with the new map stacked after the running total.
MergeCloudAppend(cur, total) ==
    IF total.points = None THEN cur
    ELSE [total EXCEPT !.points = VStack(total.points, cur.points),
                       !.colors = VStack(total.colors, cur.colors)]

\* MergeCloud with the new colours stacked after the running total.
MergeCloudColorsAfter(cur, total) ==
    IF total.points = None THEN cur
    ELSE [total EXCEPT !.points = VStack(cur.points, total.points),
                       !.colors = VStack(total.colors, cur.colors)]

\* The running total after the points and colours of one more map.
MergeCloud(cur, total) ==
    IF total.points = None THEN cur
    ELSE [total EXCEPT !.points = VStack(cur.points, total.points),
                       !.colors = VStack(cur.colors, total.colors)]

\* pointcloud['colors'] if 'colors' in pointcloud else None
ColorsOf(cloud) == IF "colors" \in DOMAIN cloud THEN cloud.colors ELSE None

\* SecondPose with each of rotation and translation used when it is given.
SecondPoseEither(rotation, translation) ==
    [R |-> IF rotation # None THEN angleaxis_to_rotation_matrix(rotation) ELSE Eye(3),
     t |-> IF translation # None THEN translation ELSE Zeros(3)]

\* The pose of the second camera of visualize_prediction.
SecondPose(rotation, translation) ==
    IF rotation # None /\ translation # None
    THEN [R |-> angleaxis_to_rotation_matrix(rotation), t |-> translation]
    ELSE [R |-> Eye(3), t |-> Zeros(3)]

\* The quotient t / d without its fraction (towards zero), modulo 256.
TruncByte(t, d) == (Sgn(t) * (Abs(t) \div d)) % 256

\* ((v+0.5)*255).astype(np.uint8) of one value v = n * 10^(-k): the product is
\* not rounded before its fraction is dropped.  Beyond 7 decimals v is below
\* 0.001 and the product between 127 and 128.
ScaledByte(v) ==
    IF IsNaN(v) THEN 0
    ELSE IF v[2] <= 0 THEN TruncByte((2 * v[1] * Pow10(-v[2]) + 1) * 255, 2)
    ELSE IF v[2] <= 7
         THEN TruncByte((v[1] + 5 * Pow10(v[2] - 1)) * 255, Pow10(v[2]))
    ELSE 127

\* img = ((image+0.5)*255).astype(np.uint8)
PredictionImage(image) ==
    IF image = None THEN None
    ELSE [ch \in 1..Len(image) |->
            [r \in 1..Len(image[ch]) |->
                [c \in 1..Len(image[ch][r]) |-> ScaledByte(image[ch][r][c])]]]

\* PredictionPointcloud with the depth map unprojected under the second pose.
PredictionPointcloudPosed(L) ==
    compute_point_cloud_from_depthmap(L.depth, L.K, L.R2, L.t2, L.n, L.img)

\* The point cloud of visualize_prediction, from its local variables.
PredictionPointcloud(L) ==
    compute_point_cloud_from_depthmap(L.depth, L.K, L.R1, L.t1, L.n, L.img)

\* vtk.vtkAxesActor() as configured by both entry points.
AxesActor ==
    [kind |-> "axes", captionHeight |-> D(5, 2), cylinderRadius |-> D(3, 2)]

\* renderer.AddActor(actor)
AddActor(renderer, actor) == Append(renderer, actor)

-----------------------------------------------------------------------------
(* Inputs of the calls *)

\* An ndarray: its shape and its elements.
Nd(shape, data) == [shape |-> shape, data |-> data]

DepthA == Nd(<<1, 1>>, << <<One>> >>)

DepthB == Nd(<<1, 1>>, << <<Int2D(2)>> >>)

\* A 2 x 2 depth map with one pixel without depth.
DepthC == Nd(<<2, 2>>, << <<One, Zero>>, <<Int2D(2), One>> >>)

\* A depth map with a batch and a channel dimension, as a network returns it.
DepthBatched == Nd(<<1, 1, 2, 2>>, DepthC.data)

\* A depth map of one row: squeeze() leaves it one dimension.
DepthRow == Nd(<<1, 2>>, << <<One, Int2D(2)>> >>)

ColorRed == Nd(<<3>>, <<Int2D(255), Zero, Zero>>)

ColorBytes == Nd(<<3>>, <<Int2D(10), Int2D(20), Int2D(30)>>)

\* A colour given as fractions of full intensity.
ColorUnit == Nd(<<3>>, <<One, D(5, 1), Zero>>)

\* A full colour image for DepthC: a different colour at every pixel.
ColorFullC ==
    Nd(<<3, 2, 2>>,
       [ch \in 1..3 |-> [r \in 1..2 |-> [c \in 1..2 |-> Int2D(40 * ch + 10 * r + c)]]])

\* A colour image for DepthA with the channels last.
ColorChannelsLast == Nd(<<1, 1, 3>>, << << <<Int2D(255), Zero, Zero>> >> >>)

\* A colour of four elements, one with a fraction and one above 255.
ColorFour == Nd(<<4>>, <<Int2D(10), D(205, 1), D(3007, 1), Int2D(99)>>)

\* A colour of two elements.
ColorPair == Nd(<<2>>, <<Int2D(255), Zero>>)

\* A colour that is a single number, without a dimension.
ColorScalar == Nd(<<>>, Int2D(7))

\* A full colour image for DepthA with values that are not bytes.
ColorFullA == Nd(<<3, 1, 1>>, << << <<D(3007, 1)>> >>, << <<D(-15, 1)>> >>,
                                 << <<D(5, 1)>> >> >>)

\* The entries a depths mapping is made of.
VisEntries ==
    { [depth |-> DepthA],
      [depth |-> DepthB, color |-> ColorRed],
      [depth |-> DepthB, color |-> ColorUnit],
      [depth |-> DepthC, color |-> ColorFullC],
      [depth |-> DepthC],
      [depth |-> DepthC, color |-> ColorBytes],
      [depth |-> DepthA, color |-> ColorChannelsLast],
      [depth |-> DepthB, color |-> ColorFour],
      [depth |-> DepthB, color |-> ColorPair],
      [depth |-> DepthA, color |-> ColorScalar],
      [depth |-> DepthA, color |-> ColorFullA] }

\* The mappings of at most MaxMaps entries, in iteration order.
DepthsMappings == UNION { [1..n -> VisEntries] : n \in 0..MaxMaps }

IntrinsicsInputs == { None, <<One, One, D(5, 1), D(5, 1)>> }

\* Axis-angle vectors around the threshold 1e-6, in units of 1e-7, four with a
\* norm within a hundredth of a percent of it, and three of norm 1e-6 whose
\* norm in doubles comes out one place above 1e-6.
SmallAngleParts == { 0, 6, 8, 10, -11 }

SmallAngleAxes ==
    { <<D(a, 7), D(b, 7), D(c, 7)>> : a, b, c \in SmallAngleParts }
    \cup { <<D(1, 6), D(1, 8), Zero>>, <<D(1, 6), Zero, D(-1, 8)>>,
           <<D(99, 8), D(15, 8), Zero>>, <<D(99, 8), D(14, 8), Zero>>,
           <<D(64, 8), D(768, 9), D(24, 9)>>,
           <<D(928, 9), D(96, 9), D(36, 8)>>,
           <<D(-24, 9), D(64, 8), D(-768, 9)>>,
           <<D(1, 6), D(1, 14), Zero>>, <<Zero, D(1, 14), D(-1, 6)>>,
           <<D(64, 8), D(744, 9), D(192, 9)>> }

\* Axis-angle vectors of ordinary rotations, and of a turn and more.
LargeAngleAxes ==
    { <<D(3, 1), D(4, 1), Zero>>, <<Zero, Zero, D(15708, 4)>>,
      <<One, Int2D(-2), Int2D(2)>>, <<Zero, Zero, D(6283, 3)>>,
      <<Zero, Int2D(12), Int2D(-5)>> }

AngleAxes == SmallAngleAxes \cup LargeAngleAxes

RotationInputs ==
    { None, Zeros(3), <<D(6, 7), D(8, 7), Zero>>, <<D(1, 6), D(1, 8), Zero>>,
      <<D(64, 8), D(768, 9), D(24, 9)>>, <<D(3, 1), D(4, 1), Zero>> }

TranslationInputs == { None, Zeros(3), <<One, D(-5, 1), Int2D(2)>> }

\* A normal map for DepthC: every normal looks along -z.
NormalsC ==
    [ch \in 1..3 |-> [r \in 1..2 |-> [c \in 1..2 |->
        IF ch = 3 THEN Int2D(-1) ELSE Zero]]]

\* An image for DepthC in the range [-0.5, 0.5].
ImageC ==
    [ch \in 1..3 |-> [r \in 1..2 |-> [c \in 1..2 |->
        IF r = c THEN D(4999 * (ch - 2), 4) ELSE D(25 * (r - c), 2)]]]

\* A rotation by a quarter turn about z, and a matrix that is no rotation.
RotZ90 ==
    << <<Zero, Int2D(-1), Zero>>, <<One, Zero, Zero>>, <<Zero, Zero, One>> >>

Stretch ==
    << <<Int2D(2), Zero, Zero>>, <<One, One, Zero>>, <<Zero, Zero, D(5, 1)>> >>

PoseRotations == { Eye(3), RotZ90, Stretch }

PoseTranslations == { Zeros(3), <<One, D(-5, 1), Int2D(2)>>, <<Zero, Zero, D(375, 3)>> }

-----------------------------------------------------------------------------
(* State *)

VARIABLES
    pc,          \* the statement the running call is at, or "idle"
    args,        \* the arguments of the running call
    locals,      \* the local variables of the running call
    i,           \* visualize_depths: number of entries of depths processed
    pointcloud,  \* the local dictionary `pointcloud`
    actors,      \* the actors of the renderer, in the order of AddActor
    renwin,      \* the render window exists
    started,     \* interactor.Start() has been called and has not returned
    exc,         \* the exception that ended the call, or "none"
    ret          \* the call of a pure function that returned, and its result

vars == <<pc, args, locals, i, pointcloud, actors, renwin, started, exc, ret>>

NoCall == [fn |-> "none"]

Init ==
    /\ pc = "idle"
    /\ args = NoCall
    /\ locals = NoCall
    /\ i = 0
    /\ pointcloud = EmptyCloud
    /\ actors = <<>>
    /\ renwin = FALSE
    /\ started = FALSE
    /\ exc = "none"
    /\ ret = NoCall

\* The call ends with exception e at the current statement.
Raise(e) ==
    /\ pc' = "raised"
    /\ exc' = e

-----------------------------------------------------------------------------
(* The pure functions, called on their own *)

CallAngleaxis(aa) ==
    /\ pc = "idle"
    /\ ret' = [fn |-> "angleaxis_to_rotation_matrix",
               aa |-> aa,
               angle |-> Angle(aa),
               rodrigues |-> RodriguesBranch(aa),
               R |-> angleaxis_to_rotation_matrix(aa)]
    /\ pc' = "returned"
    /\ UNCHANGED <<args, locals, i, pointcloud, actors, renwin, started, exc>>

CallCreateCameraActor(R, t) ==
    /\ pc = "idle"
    /\ ret' = [fn |-> "create_camera_actor", R |-> R, t |-> t,
               actor |-> create_camera_actor(R, t)]
    /\ pc' = "returned"
    /\ UNCHANGED <<args, locals, i, pointcloud, actors, renwin, started, exc>>

\* Homogeneous transforms, each with its inverse.
Affine4(A, b) ==
    << <<A[1][1], A[1][2], A[1][3], b[1]>>,
       <<A[2][1], A[2][2], A[2][3], b[2]>>,
       <<A[3][1], A[3][2], A[3][3], b[3]>>,
       <<Zero, Zero, Zero, One>> >>

Translate4 == Affine4(Eye(3), <<One, Int2D(-2), D(5, 1)>>)

TranslateInv4 == Affine4(Eye(3), <<Int2D(-1), Int2D(2), D(-5, 1)>>)

Rot4 == Affine4(RotZ90, Zeros(3))

RotInv4 ==
    Affine4(<< <<Zero, One, Zero>>, <<Int2D(-1), Zero, Zero>>, <<Zero, Zero, One>> >>,
            Zeros(3))

Scale4 ==
    Affine4(<< <<Int2D(2), Zero, Zero>>, <<Zero, Int2D(4), Zero>>, <<Zero, Zero, One>> >>,
            Zeros(3))

ScaleInv4 ==
    Affine4(<< <<D(5, 1), Zero, Zero>>, <<Zero, D(25, 2), Zero>>, <<Zero, Zero, One>> >>,
            Zeros(3))

\* Invertible matrices whose last row is not (0, 0, 0, 1).
Projective4 ==
    << <<One, Zero, Zero, One>>, <<Zero, One, Zero, Zero>>,
       <<Zero, Zero, One, Zero>>, <<One, Zero, Zero, Int2D(2)>> >>

ProjectiveInv4 ==
    << <<Int2D(2), Zero, Zero, Int2D(-1)>>, <<Zero, One, Zero, Zero>>,
       <<Zero, Zero, One, Zero>>, <<Int2D(-1), Zero, Zero, One>> >>

Weight4 ==
    << <<One, Zero, Zero, Zero>>, <<Zero, One, Zero, Zero>>,
       <<Zero, Zero, One, Zero>>, <<Zero, Zero, Zero, Int2D(2)>> >>

WeightInv4 ==
    << <<One, Zero, Zero, Zero>>, <<Zero, One, Zero, Zero>>,
       <<Zero, Zero, One, Zero>>, <<Zero, Zero, Zero, D(5, 1)>> >>

BasicTransforms ==
    { [T |-> Eye(4), Tinv |-> Eye(4)],
      [T |-> Translate4, Tinv |-> TranslateInv4],
      [T |-> Rot4, Tinv |-> RotInv4],
      [T |-> Scale4, Tinv |-> ScaleInv4],
      [T |-> Projective4, Tinv |-> ProjectiveInv4],
      [T |-> Weight4, Tinv |-> WeightInv4] }

\* The products of two basic transforms, with the inverse of each product.
Transforms ==
    { [T |-> MatMul(a.T, b.T), Tinv |-> MatMul(b.Tinv, a.Tinv)] :
        a, b \in BasicTransforms }

PointRows == { Vec3(0, 0, 0), Vec3(1, 2, 3), <<Int2D(-1), D(5, 1), Int2D(2)>> }

PointArrays == UNION { [1..n -> PointRows] : n \in 0..MaxPoints }

\* points -> transform_pointcloud_points(points, T)
CallTransform(points, tr) ==
    /\ pc = "idle"
    /\ MatMul(tr.T, tr.Tinv) = Eye(4)
    /\ ret' = [fn |-> "transform_pointcloud_points",
               points |-> points, T |-> tr.T, Tinv |-> tr.Tinv,
               out |-> transform_pointcloud_points(points, tr.T),
               back |-> None]
    /\ pc' = "returned"
    /\ UNCHANGED <<args, locals, i, pointcloud, actors, renwin, started, exc>>

\* The result of the call above, transformed by the inverse matrix.
CallTransformBack ==
    /\ pc = "returned"
    /\ ret.fn = "transform_pointcloud_points"
    /\ ret.back = None
    /\ ret' = [ret EXCEPT !.back = transform_pointcloud_points(ret.out, ret.Tinv)]
    /\ UNCHANGED <<pc, args, locals, i, pointcloud, actors, renwin, started, exc>>

-----------------------------------------------------------------------------
(* visualize_depths *)

\* Entry: the defaults and the empty running total.
CallVisualizeDepths(depths, intrinsics) ==
    /\ pc = "idle"
    /\ pc' = "vd_loop"
    /\ args' = [fn |-> "visualize_depths", depths |-> depths,
                intrinsics |-> intrinsics]
    /\ locals' = [intrinsics |-> IntrinsicsOrDefault(intrinsics),
                  R |-> Eye(3), t |-> Zeros(3), img |-> None]
    /\ i' = 0
    /\ pointcloud' = EmptyCloud
    /\ UNCHANGED <<actors, renwin, started, exc, ret>>

\* One iteration of `for key, vis in depths.items()`.
VD_Iterate ==
    /\ pc = "vd_loop"
    /\ i < Len(args.depths)
    /\ LET vis == args.depths[i + 1]
           h == vis.depth.shape[1]
           w == vis.depth.shape[2]
           K == IntrinsicMatrix(locals.intrinsics, h, w)
           img == ResolveColor(vis, h, w)
       IN  IF ColorError(vis) # "none"
           THEN /\ Raise(ColorError(vis))
                /\ UNCHANGED <<locals, i, pointcloud>>
           ELSE /\ locals' = [locals EXCEPT !.img = img]
                /\ pointcloud' =
                       MergeCloud(compute_point_cloud_from_depthmap(
                                      vis.depth.data, K, locals.R, locals.t, None, img),
                                  pointcloud)
                /\ i' = i + 1
                /\ UNCHANGED <<pc, exc>>
    /\ UNCHANGED <<args, actors, renwin, started, ret>>

\* The renderer and the point cloud actor.
VD_PointcloudActor ==
    /\ pc = "vd_loop"
    /\ i = Len(args.depths)
    /\ LET e == PointcloudActorError(pointcloud.points, ColorsOf(pointcloud))
       IN  IF e # "none"
           THEN /\ Raise(e)
                /\ UNCHANGED actors
           ELSE /\ actors' = AddActor(<<>>,
                        create_pointcloud_actor(pointcloud.points, ColorsOf(pointcloud)))
                /\ pc' = "vd_camera"
                /\ UNCHANGED exc
    /\ UNCHANGED <<args, locals, i, pointcloud, renwin, started, ret>>

VD_AddCamera ==
    /\ pc = "vd_camera"
    /\ actors' = AddActor(actors, create_camera_actor(locals.R, locals.t))
    /\ pc' = "vd_axes"
    /\ UNCHANGED <<args, locals, i, pointcloud, renwin, started, exc, ret>>

VD_AddAxes ==
    /\ pc = "vd_axes"
    /\ actors' = AddActor(actors, AxesActor)
    /\ pc' = "vd_window"
    /\ UNCHANGED <<args, locals, i, pointcloud, renwin, started, exc, ret>>

\* The render window and the interactor.
VD_Window ==
    /\ pc = "vd_window"
    /\ renwin' = TRUE
    /\ pc' = "vd_start"
    /\ UNCHANGED <<args, locals, i, pointcloud, actors, started, exc, ret>>

\* interactor.Initialize(); interactor.Start()
VD_Start ==
    /\ pc = "vd_start"
    /\ started' = TRUE
    /\ pc' = "blocking"
    /\ UNCHANGED <<args, locals, i, pointcloud, actors, renwin, exc, ret>>

-----------------------------------------------------------------------------
(* visualize_prediction *)

\* depth.squeeze(): the shape without its dimensions of size 1.
Squeeze(shape) == SelectSeq(shape, LAMBDA n : n # 1)

PredictionDepths == { DepthC, DepthBatched, DepthRow }

\* The local variables of visualize_prediction before the unprojection.
PredictionLocals(depth, K, pose2, n, img) ==
    [depth |-> depth, K |-> K, R1 |-> Eye(3), t1 |-> Zeros(3),
     R2 |-> pose2.R, t2 |-> pose2.t, n |-> n, img |-> img]

\* Entry, up to the unprojection of the depth map.
CallVisualizePrediction(depth, intrinsics, normals, rotation, translation, image) ==
    /\ pc = "idle"
    /\ args' = [fn |-> "visualize_prediction", depth |-> depth,
                intrinsics |-> intrinsics, normals |-> normals,
                rotation |-> rotation, translation |-> translation,
                image |-> image]
    /\ IF Len(Squeeze(depth.shape)) < 2
       THEN /\ Raise("IndexError")
            /\ UNCHANGED <<locals, pointcloud>>
       ELSE /\ locals' = PredictionLocals(
                    depth.data,
                    IntrinsicMatrix(IntrinsicsOrDefault(intrinsics),
                                    Squeeze(depth.shape)[Len(Squeeze(depth.shape)) - 1],
                                    Squeeze(depth.shape)[Len(Squeeze(depth.shape))]),
                    SecondPose(rotation, translation),
                    normals,
                    PredictionImage(image))
            /\ pointcloud' = PredictionPointcloud(locals')
            /\ pc' = "vp_pointcloud"
            /\ UNCHANGED exc
    /\ UNCHANGED <<i, actors, renwin, started, ret>>

\* The renderer and the point cloud actor.
VP_PointcloudActor ==
    /\ pc = "vp_pointcloud"
    /\ LET e == PointcloudActorError(pointcloud.points, ColorsOf(pointcloud))
       IN  IF e # "none"
           THEN /\ Raise(e)
                /\ UNCHANGED actors
           ELSE /\ actors' = AddActor(<<>>,
                        create_pointcloud_actor(pointcloud.points, ColorsOf(pointcloud)))
                /\ pc' = "vp_camera1"
                /\ UNCHANGED exc
    /\ UNCHANGED <<args, locals, i, pointcloud, renwin, started, ret>>

VP_AddCamera1 ==
    /\ pc = "vp_camera1"
    /\ actors' = AddActor(actors, create_camera_actor(locals.R1, locals.t1))
    /\ pc' = "vp_camera2"
    /\ UNCHANGED <<args, locals, i, pointcloud, renwin, started, exc, ret>>

\* VP_AddCamera2 without the call of AddActor.
VP_AddCamera2Forgotten ==
    /\ pc = "vp_camera2"
    /\ pc' = "vp_axes"
    /\ UNCHANGED <<args, locals, i, pointcloud, actors, renwin, started, exc, ret>>

VP_AddCamera2 ==
    /\ pc = "vp_camera2"
    /\ actors' = AddActor(actors, create_camera_actor(locals.R2, locals.t2))
    /\ pc' = "vp_axes"
    /\ UNCHANGED <<args, locals, i, pointcloud, renwin, started, exc, ret>>

VP_AddAxes ==
    /\ pc = "vp_axes"
    /\ actors' = AddActor(actors, AxesActor)
    /\ pc' = "vp_window"
    /\ UNCHANGED <<args, locals, i, pointcloud, renwin, started, exc, ret>>

\* The render window and the interactor.
VP_Window ==
    /\ pc = "vp_window"
    /\ renwin' = TRUE
    /\ pc' = "vp_start"
    /\ UNCHANGED <<args, locals, i, pointcloud, actors, started, exc, ret>>

\* interactor.Initialize(); interactor.Start()
VP_Start ==
    /\ pc = "vp_start"
    /\ started' = TRUE
    /\ pc' = "blocking"
    /\ UNCHANGED <<args, locals, i, pointcloud, actors, renwin, exc, ret>>

-----------------------------------------------------------------------------
(* The end of a call *)

\* The state of a call is dropped when it ends.
EndCall ==
    /\ pc' = "idle"
    /\ args' = NoCall
    /\ locals' = NoCall
    /\ i' = 0
    /\ pointcloud' = EmptyCloud
    /\ actors' = <<>>
    /\ renwin' = FALSE
    /\ started' = FALSE
    /\ exc' = "none"
    /\ ret' = NoCall

\* The user closes the window: Start() returns, and so does the entry point.
CloseWindow ==
    /\ pc = "blocking"
    /\ EndCall

\* The exception reaches the caller.
Propagate ==
    /\ pc = "raised"
    /\ EndCall

\* The caller takes the result of a pure function.
Return ==
    /\ pc = "returned"
    /\ EndCall

-----------------------------------------------------------------------------

Next ==
    \/ \E aa \in AngleAxes : CallAngleaxis(aa)
    \/ \E R \in PoseRotations, t \in PoseTranslations : CallCreateCameraActor(R, t)
    \/ \E points \in PointArrays, tr \in Transforms : CallTransform(points, tr)
    \/ CallTransformBack
    \/ \E depths \in DepthsMappings, intrinsics \in IntrinsicsInputs :
           CallVisualizeDepths(depths, intrinsics)
    \/ VD_Iterate
    \/ VD_PointcloudActor
    \/ VD_AddCamera
    \/ VD_AddAxes
    \/ VD_Window
    \/ VD_Start
    \/ \E depth \in PredictionDepths, intrinsics \in IntrinsicsInputs,
          normals \in {None, NormalsC}, rotation \in RotationInputs,
          translation \in TranslationInputs, image \in {None, ImageC} :
           CallVisualizePrediction(depth, intrinsics, normals, rotation,
                                   translation, image)
    \/ VP_PointcloudActor
    \/ VP_AddCamera1
    \/ VP_AddCamera2
    \/ VP_AddAxes
    \/ VP_Window
    \/ VP_Start
    \/ CloseWindow
    \/ Propagate
    \/ Return

Spec == Init /\ [][Next]_vars

-----------------------------------------------------------------------------
(* Properties: what the checks below are stated in terms of *)

InDepths == args.fn = "visualize_depths"

InPrediction == args.fn = "visualize_prediction"

\* The point cloud actor has been handed to the renderer.
ActorBuilt == Len(actors) >= 1

\* The kernel's output for entry k of the depths mapping, taken alone.
MapCloud(k) ==
    compute_point_cloud_from_depthmap(
        args.depths[k].depth.data,
        IntrinsicMatrix(locals.intrinsics,
                        args.depths[k].depth.shape[1], args.depths[k].depth.shape[2]),
        Eye(3), Zeros(3), None,
        ResolveColor(args.depths[k],
                     args.depths[k].depth.shape[1], args.depths[k].depth.shape[2]))

\* The points of the maps k, k-1, ..., 1, in that order.
RECURSIVE LastFirstPoints(_)
LastFirstPoints(k) ==
    IF k = 0 THEN <<>> ELSE MapCloud(k).points \o LastFirstPoints(k - 1)

\* The number of pixels of entry k with a depth.
RECURSIVE CountValid(_, _)
CountValid(depth, p) ==
    IF p = 0 THEN 0
    ELSE CountValid(depth, p - 1)
         + (IF depth.data[((p - 1) \div depth.shape[2]) + 1]
                         [((p - 1) % depth.shape[2]) + 1][1] > 0
            THEN 1 ELSE 0)

RECURSIVE TotalValid(_)
TotalValid(k) ==
    IF k = 0 THEN 0
    ELSE TotalValid(k - 1)
         + CountValid(args.depths[k].depth,
                      args.depths[k].depth.shape[1] * args.depths[k].depth.shape[2])

\* The mapping holds two maps of one pixel each.
TwoSinglePixelMaps ==
    /\ Len(args.depths) = 2
    /\ \A k \in 1..2 : args.depths[k].depth.shape = <<1, 1>>

\* C1: in visualize_depths the running total after k >= 1 maps, and the cloud
\* handed to the point cloud actor, hold the points of map k first, then those
\* of map k-1, ..., those of map 1 last; their number is the sum of the maps'
\* point counts; two single-pixel maps give 2 points, the second map's first.
\* (A single-pixel map is a map whose pixel has a depth.)
C1_PrependOrder ==
    InDepths /\ i >= 1 /\ pc # "raised" =>
        /\ pointcloud.points = LastFirstPoints(i)
        /\ Len(pointcloud.points) = TotalValid(i)
        /\ ActorBuilt =>
              /\ i = Len(args.depths)
              /\ actors[1].points = pointcloud.points
              /\ TwoSinglePixelMaps =>
                    /\ Len(actors[1].points) = 2
                    /\ actors[1].points[1][3] = args.depths[2].depth.data[1][1]
                    /\ actors[1].points[2][3] = args.depths[1].depth.data[1][1]

\* Two single-pixel maps of different depth have been merged and handed over.
C1_Witness ==
    /\ InDepths /\ ActorBuilt /\ TwoSinglePixelMaps
    /\ args.depths[1].depth = DepthA
    /\ args.depths[2].depth = DepthB
    /\ Len(actors[1].points) = 2
    /\ actors[1].points[1] # actors[1].points[2]

\* The (point, colour) pairs of the maps k, k-1, ..., 1: each point with the
\* colour the kernel produced for it.
RECURSIVE LastFirstPairs(_)
LastFirstPairs(k) ==
    IF k = 0 THEN <<>>
    ELSE [p \in 1..Len(MapCloud(k).points) |->
             <<MapCloud(k).points[p], MapCloud(k).colors[p]>>]
         \o LastFirstPairs(k - 1)

\* C7: after every iteration of the loop of visualize_depths there are as many
\* colours as points and colour j is the colour produced for point j; the point
\* cloud actor is given one colour per point.
C7_ColorsParallel ==
    InDepths /\ i >= 1 /\ pc # "raised" =>
        /\ Len(pointcloud.colors) = Len(pointcloud.points)
        /\ [p \in 1..Len(pointcloud.points) |->
               <<pointcloud.points[p], pointcloud.colors[p]>>] = LastFirstPairs(i)
        /\ ActorBuilt =>
              /\ actors[1].colors # None
              /\ Len(actors[1].colors) = Len(actors[1].points)
              /\ actors[1].colors = pointcloud.colors

\* Two maps of different colours have been merged: a white map, then a map
\* with a colour image, whose three points come first.
C7_Witness ==
    /\ InDepths /\ ActorBuilt /\ Len(args.depths) = 2
    /\ args.depths[1] = [depth |-> DepthA]
    /\ args.depths[2] = [depth |-> DepthC, color |-> ColorFullC]
    /\ Len(actors[1].colors) = 4
    /\ actors[1].colors[4] = <<255, 255, 255>>
    /\ actors[1].colors[1] # actors[1].colors[4]

\* The entry of the depths mapping the last iteration worked on.
LastEntry == args.depths[IF pc = "raised" THEN i + 1 ELSE i]

HasColor(vis) == "color" \in DOMAIN vis

\* The image has shape (3,h,w).
HasShape(image, h, w) ==
    /\ Len(image) = 3
    /\ \A ch \in 1..3 :
          /\ Len(image[ch]) = h
          /\ \A r \in 1..h : Len(image[ch][r]) = w

\* The byte b is np.uint8 of the number x: the whole number n that x is
\* without its fraction, taken modulo 256.
ByteOf(b, x) ==
    /\ b \in 0..255
    /\ \E q \in -4..4 :
          IF Gt(Zero, x)
          THEN /\ b + 256 * q <= 0
               /\ ~Gt(x, Int2D(b + 256 * q))
               /\ Gt(x, Int2D(b + 256 * q - 1))
          ELSE /\ b + 256 * q >= 0
               /\ ~Gt(Int2D(b + 256 * q), x)
               /\ Gt(Int2D(b + 256 * q + 1), x)

\* The iteration on LastEntry ended in the exception e, before that map was
\* unprojected and before any window.
AbortWith(e) ==
    /\ pc = "raised"
    /\ exc = e
    /\ pointcloud.points = (IF i = 0 THEN None ELSE LastFirstPoints(i))
    /\ actors = <<>>
    /\ ~renwin
    /\ ~started

\* An entry without the key 'color' has every pixel (255,255,255).
DefaultColorWhite ==
    ~HasColor(LastEntry) =>
        /\ pc # "raised"
        /\ HasShape(locals.img, LastEntry.depth.shape[1], LastEntry.depth.shape[2])
        /\ \A ch \in 1..3, r \in 1..LastEntry.depth.shape[1],
              c \in 1..LastEntry.depth.shape[2] : locals.img[ch][r][c] = 255

\* An iteration of the loop has just worked on an entry.
AfterIteration ==
    /\ InDepths
    /\ \/ pc = "vd_loop" /\ i >= 1
       \/ pc = "raised" /\ i < Len(args.depths)

\* C8 as stated: a 1-dimensional 3-element colour gives every pixel of
\* channel ch the value color[ch] itself; without the key every pixel is
\* (255,255,255); any other array is the colour image and must have first
\* dimension 3, else the call ends in an assertion failure before that map is
\* unprojected and before any window.
C8_Original ==
    AfterIteration =>
        /\ DefaultColorWhite
        /\ HasColor(LastEntry) /\ LastEntry.color.shape = <<3>> =>
              /\ pc # "raised"
              /\ HasShape(locals.img, LastEntry.depth.shape[1], LastEntry.depth.shape[2])
              /\ \A ch \in 1..3, r \in 1..LastEntry.depth.shape[1],
                    c \in 1..LastEntry.depth.shape[2] :
                    Int2D(locals.img[ch][r][c]) = LastEntry.color.data[ch]
        /\ HasColor(LastEntry) /\ LastEntry.color.shape # <<3>> =>
              IF Len(LastEntry.color.shape) >= 1 /\ LastEntry.color.shape[1] = 3
              THEN /\ pc # "raised"
                   /\ HasShape(locals.img, LastEntry.color.shape[2],
                               LastEntry.color.shape[3])
                   /\ \A ch \in 1..3, r \in 1..LastEntry.color.shape[2],
                         c \in 1..LastEntry.color.shape[3] :
                         Int2D(locals.img[ch][r][c]) = LastEntry.color.data[ch][r][c]
              ELSE AbortWith("AssertionError")

\* C8 amended: without the key every pixel is (255,255,255); a 1-dimensional
\* colour of 3 or more elements gives every pixel of channel ch the byte that
\* np.uint8 makes of color[ch], the elements after the third unused; a
\* 1-dimensional colour of fewer than 3 elements and a 0-dimensional colour
\* end the call in an IndexError; a colour of 2 or more dimensions is the
\* colour image, every element made a byte by np.uint8, and must have first
\* dimension 3, else the call ends in an assertion failure; either failure
\* comes before that map is unprojected and before any window.
C8_ColorResolution ==
    AfterIteration =>
        /\ DefaultColorWhite
        /\ HasColor(LastEntry) /\ Len(LastEntry.color.shape) = 1 =>
              IF LastEntry.color.shape[1] >= 3
              THEN /\ pc # "raised"
                   /\ HasShape(locals.img, LastEntry.depth.shape[1],
                               LastEntry.depth.shape[2])
                   /\ \A ch \in 1..3, r \in 1..LastEntry.depth.shape[1],
                         c \in 1..LastEntry.depth.shape[2] :
                         ByteOf(locals.img[ch][r][c], LastEntry.color.data[ch])
              ELSE AbortWith("IndexError")
        /\ HasColor(LastEntry) /\ Len(LastEntry.color.shape) = 0 =>
              AbortWith("IndexError")
        /\ HasColor(LastEntry) /\ Len(LastEntry.color.shape) >= 2 =>
              IF LastEntry.color.shape[1] = 3
              THEN /\ pc # "raised"
                   /\ HasShape(locals.img, LastEntry.color.shape[2],
                               LastEntry.color.shape[3])
                   /\ \A ch \in 1..3, r \in 1..LastEntry.color.shape[2],
                         c \in 1..LastEntry.color.shape[3] :
                         ByteOf(locals.img[ch][r][c], LastEntry.color.data[ch][r][c])
              ELSE AbortWith("AssertionError")

\* A colour with a fractional channel has been resolved.
C8_Witness ==
    /\ AfterIteration /\ pc = "vd_loop"
    /\ HasColor(LastEntry)
    /\ LastEntry.color = ColorUnit
    /\ locals.img[2][1][1] = 0
    /\ locals.img[1][1][1] = 1

\* C10: visualize_depths with an empty mapping keeps the empty running total,
\* fails in create_pointcloud_actor on the None points, and ends with that
\* error before the render window exists and before Start().
C10_EmptyMappingNoWindow ==
    InDepths /\ Len(args.depths) = 0 =>
        /\ pointcloud = [points |-> None, colors |-> None]
        /\ actors = <<>>
        /\ ~renwin
        /\ ~started
        /\ pc \in {"vd_loop", "raised"}
        /\ pc = "raised" => exc = "AttributeError"

\* The call with the empty mapping has ended with the error.
C10_Witness ==
    /\ InDepths /\ Len(args.depths) = 0
    /\ pc = "raised" /\ exc = "AttributeError"
    /\ ~renwin

\* The camera mesh scaled by 0.25, vertex by vertex.
QuarterPoints ==
    << <<Zero, Zero, Zero>>,
       <<D(-25, 2), D(-25, 2), D(375, 3)>>,
       <<D(25, 2), D(-25, 2), D(375, 3)>>,
       <<D(25, 2), D(25, 2), D(375, 3)>>,
       <<D(-25, 2), D(25, 2), D(375, 3)>>,
       <<D(-125, 3), D(25, 2), D(375, 3)>>,
       <<D(125, 3), D(25, 2), D(375, 3)>>,
       <<Zero, D(3, 1), D(375, 3)>>,
       <<D(25, 2), D(-125, 3), D(375, 3)>>,
       <<D(25, 2), D(125, 3), D(375, 3)>>,
       <<D(3, 1), Zero, D(375, 3)>> >>

\* Coordinate j of the row vector (q - t) times R, written out.
PlacedCoordinate(q, R, t, j) ==
    Add(Add(Mul(Sub(q[1], t[1]), R[1][j]), Mul(Sub(q[2], t[2]), R[2][j])),
        Mul(Sub(q[3], t[3]), R[3][j]))

\* The 11 vertices of a camera actor are at (0.25*P_i - t)*R.
PlacedAt(actor, R, t) ==
    /\ actor.kind = "camera"
    /\ Len(actor.points) = 11
    /\ \A v \in 1..11, j \in 1..3 :
          actor.points[v][j] = PlacedCoordinate(QuarterPoints[v], R, t, j)

IdentityMatrix3 ==
    << <<One, Zero, Zero>>, <<Zero, One, Zero>>, <<Zero, Zero, One>> >>

\* C5: create_camera_actor places vertex i at (0.25*P_i - t)*R for every pose;
\* at the identity pose every vertex is at 0.25*P_i and the apex at the origin.
C5_CameraPlacement ==
    ret.fn = "create_camera_actor" =>
        /\ PlacedAt(ret.actor, ret.R, ret.t)
        /\ ret.R = IdentityMatrix3 /\ ret.t = <<Zero, Zero, Zero>> =>
              /\ ret.actor.points = QuarterPoints
              /\ ret.actor.points[1] = <<Zero, Zero, Zero>>

\* A camera actor has been built at a pose that turns and moves the mesh.
C5_Witness ==
    /\ ret.fn = "create_camera_actor"
    /\ ret.R = RotZ90
    /\ ret.t = <<One, D(-5, 1), Int2D(2)>>
    /\ ret.actor.points[1] = <<D(5, 1), One, Int2D(-2)>>
    /\ ret.actor.points # QuarterPoints

\* The doubles that the components of aa are.
Doubles(aa) == <<FromDec(aa[1]), FromDec(aa[2]), FromDec(aa[3])>>

\* The double a is zero.
DoubleIsZero(a) == BitLen(a[1]) = 0

\* The lowest exponent among the squares of the doubles x that are not zero.
LowExp(x) ==
    IF \A j \in 1..3 : DoubleIsZero(x[j]) THEN 0
    ELSE CHOOSE l \in {2 * x[j][2] : j \in {h \in 1..3 : ~DoubleIsZero(x[h])}} :
            \A j \in 1..3 : ~DoubleIsZero(x[j]) => l <= 2 * x[j][2]

\* The square of the double a, exactly, in units of 2^l.
SquareIn(a, l) ==
    IF DoubleIsZero(a) THEN <<0>> ELSE BShl(BMul(a[1], a[1]), 2 * a[2] - l)

\* The sum of the squares of the doubles x, exactly, in units of 2^l: the
\* square of the norm of the vector that the function is given.
SquaredNormIn(x, l) ==
    BAdd(BAdd(SquareIn(x[1], l), SquareIn(x[2], l)), SquareIn(x[3], l))

TenTo12 == BMul(Limbs(1000000), Limbs(1000000))

TenTo14 == BMul(Limbs(10000000), Limbs(10000000))

\* The two sides of the comparison of the norm of aa with c * 1e-20, as whole
\* numbers: the squared norm times 10^40, and the square of c, in one unit.
NormSides(aa, c) ==
    CHOOSE p \in
        {IF l >= 0
         THEN <<BShl(BMul(BMul(BMul(SquaredNormIn(x, l), TenTo14), TenTo14),
                          TenTo12), l),
                BMul(c, c)>>
         ELSE <<BMul(BMul(BMul(SquaredNormIn(x, l), TenTo14), TenTo14), TenTo12),
                BShl(BMul(c, c), 0 - l)>>
         : x \in {Doubles(aa)}, l \in {LowExp(Doubles(aa))}} : TRUE

\* The norm of aa is above 1e-6, exactly.
NormAboveEps(aa) ==
    \E p \in {NormSides(aa, TenTo14)} : BGt(p[1], p[2])

\* The norm of aa is above 1e-6 by more than one part in 10^14.
NormAboveBand(aa) ==
    \E p \in {NormSides(aa, BAdd(TenTo14, <<1>>))} : BGt(p[1], p[2])

\* The norm of aa is below 1e-6 by more than one part in 10^14.
NormBelowBand(aa) ==
    \E p \in {NormSides(aa, BPred(TenTo14))} : BGt(p[2], p[1])

\* aa has one component c, in place j, and zeros elsewhere.
SingleComponent(aa, j) == \A h \in 1..3 : h # j => aa[h] = Zero

\* C4 as stated: angleaxis_to_rotation_matrix returns exactly the identity for
\* every input of norm <= 1e-6, the boundary and the zero vector included, and
\* takes the Rodrigues branch for every input of norm > 1e-6, where the angle
\* it divides by is not zero.  The norm is that of the vector of doubles the
\* function is given, taken exactly.
C4_Original ==
    ret.fn = "angleaxis_to_rotation_matrix" =>
        IF NormAboveEps(ret.aa)
        THEN /\ ret.rodrigues
             /\ ret.angle # Zero
             /\ ret.R = Rodrigues(ret.aa)
             /\ \A r, c \in 1..3 : ~IsNaN(ret.R[r][c])
        ELSE /\ ~ret.rodrigues
             /\ ret.R = IdentityMatrix3

\* C4 amended: the branch is decided by the norm that np.sqrt(aa.dot(aa))
\* computes in doubles.  angleaxis_to_rotation_matrix takes the Rodrigues
\* branch for every input whose norm is above 1e-6 by more than one part in
\* 10^14 and returns the identity for every input whose norm is below 1e-6 by
\* more than one part in 10^14; an input with a single component c takes the
\* Rodrigues branch exactly when |c| > 1e-6, so the zero vector and the
\* boundary |c| = 1e-6 return the identity; whenever the Rodrigues branch is
\* taken the angle it divides by is not zero and the result is the Rodrigues
\* matrix, and otherwise the result is exactly the identity.
C4_ComputedNorm ==
    ret.fn = "angleaxis_to_rotation_matrix" =>
        /\ NormAboveBand(ret.aa) => ret.rodrigues
        /\ NormBelowBand(ret.aa) => ~ret.rodrigues
        /\ \A j \in 1..3 :
              SingleComponent(ret.aa, j) =>
                  (ret.rodrigues <=> \/ Gt(ret.aa[j], AngleEps)
                                     \/ Gt(Neg(ret.aa[j]), AngleEps))
        /\ ret.rodrigues =>
              /\ ret.angle # Zero
              /\ ret.R = Rodrigues(ret.aa)
              /\ \A r, c \in 1..3 : ~IsNaN(ret.R[r][c])
        /\ ~ret.rodrigues => ret.R = IdentityMatrix3

\* The function has been called with the boundary vector (1e-6, 0, 0), whose
\* norm is exactly 1e-6 and inside the band, and has returned the identity.
C4_Witness ==
    /\ ret.fn = "angleaxis_to_rotation_matrix"
    /\ ret.aa = <<D(1, 6), Zero, Zero>>
    /\ ~NormAboveEps(ret.aa)
    /\ ~NormAboveBand(ret.aa) /\ ~NormBelowBand(ret.aa)
    /\ ret.angle = D(1, 6)
    /\ ~ret.rodrigues
    /\ ret.R = IdentityMatrix3

\* The last row of a homogeneous transform is (0, 0, 0, 1).
LastRowAffine(T) == T[4] = <<Zero, Zero, Zero, One>>

RoundTripDone == ret.fn = "transform_pointcloud_points" /\ ret.back # None

\* C3 as stated: for any invertible 4x4 matrix T, transforming by T and then
\* by the inverse of T returns the original points.
C3_Original == RoundTripDone => ret.back = ret.points

\* C3 amended: for any invertible 4x4 matrix T whose last row is (0, 0, 0, 1),
\* transforming by T and then by the inverse of T returns the original points.
C3_AffineRoundTrip ==
    RoundTripDone /\ LastRowAffine(ret.T) => ret.back = ret.points

\* Points have been moved by a transform that turns and shifts them, and back.
C3_Witness ==
    /\ RoundTripDone
    /\ ret.T = MatMul(Translate4, Rot4)
    /\ Len(ret.points) = 2
    /\ ret.out # ret.points
    /\ ret.back = ret.points

\* The back-projection of pixel (r, c), from 0, with depth d: no pose applied.
CameraSpacePoint(r, c, d, K) ==
    <<Div(Mul(Sub(Int2D(c), K[1][3]), d), K[1][1]),
      Div(Mul(Sub(Int2D(r), K[2][3]), d), K[2][2]),
      d>>

\* The points of the first p pixels of a depth map of width w under no pose:
\* the pixels with a depth, row by row.
RECURSIVE CameraSpacePoints(_, _, _, _)
CameraSpacePoints(depth, K, w, p) ==
    IF p = 0 THEN <<>>
    ELSE CameraSpacePoints(depth, K, w, p - 1)
         \o (IF depth[((p - 1) \div w) + 1][((p - 1) % w) + 1][1] > 0
             THEN << CameraSpacePoint(
                         (p - 1) \div w, (p - 1) % w,
                         depth[((p - 1) \div w) + 1][((p - 1) % w) + 1], K) >>
             ELSE <<>>)

\* C2: in visualize_prediction, whatever rotation and translation are given,
\* the points handed to the point cloud actor are those of the identity pose,
\* the same as with no pose; the first camera glyph is at the identity pose and
\* the supplied pose places the second glyph only.
C2_PoseMovesSecondGlyphOnly ==
    InPrediction /\ ActorBuilt =>
        /\ actors[1].kind = "pointcloud"
        /\ actors[1].points =
              CameraSpacePoints(locals.depth, locals.K, Len(locals.depth[1]),
                                Len(locals.depth) * Len(locals.depth[1]))
        /\ actors[1].points = pointcloud.points
        /\ Len(actors) >= 2 => actors[2].points = QuarterPoints
        /\ Len(actors) >= 3 => PlacedAt(actors[3], locals.R2, locals.t2)

\* A prediction is shown with a pose that turns and moves the second camera.
C2_Witness ==
    /\ InPrediction /\ Len(actors) >= 3
    /\ args.rotation = <<D(3, 1), D(4, 1), Zero>>
    /\ args.translation = <<One, D(-5, 1), Int2D(2)>>
    /\ Len(actors[1].points) = 3
    /\ actors[3].points # actors[2].points
    /\ locals.R2 # IdentityMatrix3

\* C9: in visualize_prediction the supplied pose is used only when rotation
\* and translation are both given; with exactly one of them None the other is
\* ignored and the second glyph is at the identity pose, as with neither.
C9_PoseNeedsBoth ==
    InPrediction /\ pc # "raised" =>
        /\ IF args.rotation # None /\ args.translation # None
           THEN /\ locals.t2 = args.translation
                /\ locals.R2 = angleaxis_to_rotation_matrix(args.rotation)
           ELSE /\ locals.t2 = <<Zero, Zero, Zero>>
                /\ locals.R2 = IdentityMatrix3
        /\ Len(actors) >= 3 =>
              /\ PlacedAt(actors[3], locals.R2, locals.t2)
              /\ (args.rotation = None \/ args.translation = None) =>
                    actors[3].points = QuarterPoints

\* A prediction is shown with a rotation and no translation.
C9_Witness ==
    /\ InPrediction /\ Len(actors) >= 3
    /\ args.rotation = <<D(3, 1), D(4, 1), Zero>>
    /\ args.translation = None
    /\ actors[3].points = QuarterPoints

\* The kinds of the actors of the renderer, in the order they were added.
ActorKinds == [a \in 1..Len(actors) |-> actors[a].kind]

\* The whole scene of the running entry point is in the renderer.
SceneComposed ==
    /\ InDepths =>
          /\ ActorKinds = <<"pointcloud", "camera", "axes">>
          /\ actors[1].points = pointcloud.points
          /\ actors[2].points = QuarterPoints
    /\ InPrediction =>
          /\ ActorKinds = <<"pointcloud", "camera", "camera", "axes">>
          /\ actors[1].points = pointcloud.points
          /\ actors[2].points = QuarterPoints
          /\ PlacedAt(actors[3], locals.R2, locals.t2)
    /\ InDepths \/ InPrediction

\* C6: in both entry points Start() is called only once the scene is complete:
\* the renderer then holds one point cloud actor, the camera glyph(s) and one
\* axes gizmo, added in that order, and no actor is added while Start() runs.
C6_SceneBeforeStart ==
    /\ [](started => SceneComposed)
    /\ [][(~started /\ started') => (SceneComposed /\ actors' = actors)]_vars
    /\ [][(started /\ started') => actors' = actors]_vars

\* The interactive session of a prediction with two camera glyphs runs.
C6_Witness ==
    /\ started /\ InPrediction
    /\ pc = "blocking"
    /\ Len(actors) = 4
    /\ renwin

=============================================================================
